---- MODULE Spec2Model ----
(***************************************************************************)
(* drest: a connection object (drest.api.API / TastyPieAPI), the resource  *)
(* handlers it registers (drest.resource) and the transport handler they   *)
(* share.  One connection object is modelled, from before its construction *)
(* through any sequence of calls on it and on its resources.               *)
(*                                                                         *)
(* Python strings that the code takes apart (paths, URIs, formatted ids)   *)
(* are sequences of one-character strings; names and header values that    *)
(* are only compared are TLA+ strings.  Python None is the empty optional  *)
(* <<>>, a present value x is <<x>>.  A decoded body (a mapping) is the    *)
(* sequence of its keys in iteration order; the empty mapping is <<>>.     *)
(***************************************************************************)
EXTENDS Integers, Sequences, FiniteSets, TLC

VARIABLES meta, pc, _resources, handlers, transports, lastAuth, call

vars == <<meta, pc, _resources, handlers, transports, lastAuth, call>>

\* ------------------------------------------------------------------ bounds

\* largest integer id passed to a verb or embedded in a resource URI
MaxId == 23
\* largest params value a caller passes (params are abstracted to a number)
MaxParam == 1
\* most keys in a discovery response body
MaxKeys == 2
\* most trailing slashes on a resource URI
MaxSlashes == 1

\* ----------------------------------------------------------- Python values

None == <<>>
Some(x) == <<x>>

ToSet(s) == {s[i] : i \in 1..Len(s)}

Digit == <<"0", "1", "2", "3", "4", "5", "6", "7", "8", "9">>

\* '%s' % n for a non-negative integer n
RECURSIVE IntStr(_)
IntStr(n) == IF n < 10 THEN <<Digit[n + 1]>>
             ELSE IntStr(n \div 10) \o <<Digit[(n % 10) + 1]>>

\* a resource id as a caller passes it: None, an integer or a string
NoId == [t |-> "none"]
IntId(n) == [t |-> "int", n |-> n]
StrId(s) == [t |-> "str", s |-> s]

\* Python truth value of a resource id (resource.py:144, "if resource_id:")
Truthy(id) == CASE id.t = "none" -> FALSE
                [] id.t = "int" -> id.n # 0
                [] id.t = "str" -> Len(id.s) > 0

\* '%s' % resource_id (resource.py:145, 153, 203, 232)
Format(id) == CASE id.t = "none" -> <<"N", "o", "n", "e">>
                [] id.t = "int" -> IntStr(id.n)
                [] id.t = "str" -> id.s

\* str.lstrip('/') and str.rstrip('/')
RECURSIVE lstrip(_)
lstrip(s) == IF Len(s) > 0 /\ Head(s) = "/" THEN lstrip(Tail(s)) ELSE s

RECURSIVE rstrip(_)
rstrip(s) == IF Len(s) > 0 /\ s[Len(s)] = "/"
             THEN rstrip(SubSeq(s, 1, Len(s) - 1)) ELSE s

\* str.split('/'): the segments between slashes, empty ones included
RECURSIVE split(_)
split(s) ==
    IF \A i \in 1..Len(s) : s[i] # "/" THEN <<s>>
    ELSE LET i == CHOOSE k \in 1..Len(s) :
                      s[k] = "/" /\ \A j \in 1..(k - 1) : s[j] # "/"
         IN <<SubSeq(s, 1, i - 1)>> \o split(SubSeq(s, i + 1, Len(s)))

\* ------------------------------------------------------------- input sets

\* resource names a caller or a discovery body may use
Names == {"", "users", "groups", "auth"}

\* '%s' % name
Chars(name) == CASE name = "" -> <<>>
                 [] name = "users" -> <<"u", "s", "e", "r", "s">>
                 [] name = "groups" -> <<"g", "r", "o", "u", "p", "s">>
                 [] name = "auth" -> <<"a", "u", "t", "h">>

\* the path argument of add_resource: absent, or a string
PathArgs == {None, Some(<<>>), Some(<<"/">>),
             Some(<<"/", "u", "s", "e", "r", "s", "/">>)}

IntIds == {0, MaxId}
Ids == {NoId} \cup {IntId(n) : n \in IntIds} \cup {StrId(<<"m", "e">>)}
Params == 0..MaxParam
Users == {"john"}
Secrets == {"s1", "s2"}
Methods == {"GET", "DELETE"}
Statuses == {200, 404}
AuthMechs == {"api_key", "basic", "digest"}

\* the keys of a decoded body: the non-empty names
Keys == Names \ {""}

\* decoded bodies: sequences of at most MaxKeys distinct keys
RECURSIVE KeySeqs(_)
KeySeqs(n) == IF n = 0 THEN {<<>>}
              ELSE KeySeqs(n - 1) \cup
                   {Append(s, k) : s \in {q \in KeySeqs(n - 1) : Len(q) = n - 1},
                                   k \in Keys}

Distinct(s) == \A i, j \in 1..Len(s) : i # j => s[i] # s[j]
Bodies == {s \in KeySeqs(MaxKeys) : Distinct(s)}
\* bodies a verb or schema request is answered with
Contents == {<<>>, <<"users">>}

\* what the server answers to one request
Outcomes(bodies) == [status : Statuses, content : bodies]

\* ----------------------------------------------------------------- results

\* how a call ends: a normal return, or one of the exceptions of drest.exc
Return(v) == [kind |-> "return", value |-> v]
dRestRequestError(msg, response, content) ==
    [kind |-> "dRestRequestError", msg |-> msg, response |-> response,
     content |-> content]
dRestResourceError(msg) == [kind |-> "dRestResourceError", msg |-> msg]
dRestAPIError(msg) == [kind |-> "dRestAPIError", msg |-> msg]

\* ------------------------------------------------------- transport handler
\* drest.request is not among the sources; the transport is modelled from
\* its contract: it stores injected headers and basic-auth credentials,
\* sends both with every request, returns (response, content) on a 2xx
\* status and raises a request error carrying message, response and content
\* otherwise.

NewTransport == [headers |-> <<>>, creds |-> None]

RequestHandler_add_header(t, key, value) ==
    [t EXCEPT !.headers = [k \in DOMAIN t.headers \cup {key} |->
                              IF k = key THEN value ELSE t.headers[k]]]

RequestHandler_set_auth_credentials(t, user, password) ==
    [t EXCEPT !.creds = Some(<<user, password>>)]

Is2xx(status) == status >= 200 /\ status < 300

\* the message of the transport's request error
TransportMsg(status) == <<"Received HTTP Code ", status>>

\* one call of the transport ts[i]: the request put on the wire, and how
\* the call ends given the server's answer
RequestHandler_request(ts, i, method, path, params, outcome) ==
    [req |-> [transport |-> i, method |-> method, path |-> path,
              params |-> params, headers |-> ts[i].headers,
              creds |-> ts[i].creds],
     result |-> IF Is2xx(outcome.status)
                THEN Return(<<[status |-> outcome.status], outcome.content>>)
                ELSE dRestRequestError(TransportMsg(outcome.status),
                                       [status |-> outcome.status],
                                       outcome.content)]

\* -------------------------------------------------------- resource handler

\* the request argument of a resource handler: the connection's transport
\* instance, or an uninstantiated handler class
Instance(i) == [instantiated |-> TRUE, ref |-> i]
Class == [instantiated |-> FALSE]

\* ResourceHandler.__init__ with the instance test of resource.py:55 lost:
\* every handler instantiates a transport of its own
ResourceHandler_init_own(ts, baseurl, path, name, request) ==
    IF name = "" THEN
        [result |-> dRestResourceError("name required"), transports |-> ts]
    ELSE IF Len(path) = 0 THEN
        [result |-> dRestResourceError("path required"), transports |-> ts]
    ELSE
        [result |-> Return([name |-> name, path |-> rstrip(lstrip(path)),
                            _request |-> Len(ts) + 1, schema |-> None]),
         transports |-> Append(ts, NewTransport)]

\* ResourceHandler.__init__(baseurl=, path=, name=, request=): the handler
\* built and the transports that then exist, or the error raised
ResourceHandler_init(ts, baseurl, path, name, request) ==
    IF name = "" THEN
        [result |-> dRestResourceError("name required"), transports |-> ts]
    ELSE IF Len(path) = 0 THEN
        [result |-> dRestResourceError("path required"), transports |-> ts]
    ELSE IF ~request.instantiated THEN
        IF Len(baseurl) = 0 THEN
            [result |-> dRestResourceError("baseurl required"),
             transports |-> ts]
        ELSE
            [result |-> Return([name |-> name, path |-> rstrip(lstrip(path)),
                                _request |-> Len(ts) + 1, schema |-> None]),
             transports |-> Append(ts, NewTransport)]
    ELSE
        [result |-> Return([name |-> name, path |-> rstrip(lstrip(path)),
                            _request |-> request.ref, schema |-> None]),
         transports |-> ts]

\* RESTResourceHandler.request: a wrapper around the handler's transport
RESTResourceHandler_request(h, ts, method, path, params, outcome) ==
    RequestHandler_request(ts, h._request, method, path, params, outcome)

\* RESTResourceHandler.filter, or the override of the installed subclass
\* (meta.filter = "subclass": a hook that changes the params at every
\* application, here n |-> n + 1)
filter(params) == IF meta.filter = "base" THEN params ELSE params + 1

\* the message of a re-raised request error
Annotated(msg, name, id) == msg \o <<" (resource: ", name, ", id: ", id, ")">>
AnnotatedNoId(msg, name) == msg \o <<" (resource: ", name, ")">>

Reraise(r, msg) ==
    IF r.kind = "dRestRequestError"
    THEN dRestRequestError(msg, r.response, r.content) ELSE r

\* get with the except clause of resource.py:152 swallowing the error: the
\* failed call returns the transport's response and content
RESTResourceHandler_get_swallow(h, ts, resource_id, params, outcome) ==
    LET path == IF Truthy(resource_id)
                THEN <<"/">> \o h.path \o <<"/">> \o Format(resource_id)
                ELSE <<"/">> \o h.path
        r == RESTResourceHandler_request(h, ts, "GET", path, filter(params),
                                         outcome)
    IN [requests |-> <<r.req>>,
        result |-> IF r.result.kind = "dRestRequestError"
                   THEN Return(<<r.result.response, r.result.content>>)
                   ELSE r.result]

\* put with a second attempt after a failed request
RESTResourceHandler_put_retry(h, ts, resource_id, params, outcome) ==
    LET params1 == filter(params)
        path == <<"/">> \o h.path \o <<"/">> \o Format(resource_id)
        r == RESTResourceHandler_request(h, ts, "PUT", path, params1, outcome)
    IN [requests |-> IF r.result.kind = "dRestRequestError"
                     THEN <<r.req, r.req>> ELSE <<r.req>>,
        result |-> Reraise(r.result,
                           Annotated(r.result.msg, h.name, Format(resource_id)))]

\* the verb methods: the requests issued and the result of the call
RESTResourceHandler_get(h, ts, resource_id, params, outcome) ==
    LET path == IF Truthy(resource_id)
                THEN <<"/">> \o h.path \o <<"/">> \o Format(resource_id)
                ELSE <<"/">> \o h.path
        r == RESTResourceHandler_request(h, ts, "GET", path, filter(params),
                                         outcome)
    IN [requests |-> <<r.req>>,
        result |-> Reraise(r.result,
                           Annotated(r.result.msg, h.name, Format(resource_id)))]

RESTResourceHandler_post(h, ts, params, outcome) ==
    LET params1 == filter(params)
        path == <<"/">> \o h.path
        r == RESTResourceHandler_request(h, ts, "POST", path, filter(params1),
                                         outcome)
    IN [requests |-> <<r.req>>,
        result |-> Reraise(r.result, AnnotatedNoId(r.result.msg, h.name))]

RESTResourceHandler_create(h, ts, params, outcome) ==
    RESTResourceHandler_post(h, ts, params, outcome)

RESTResourceHandler_put(h, ts, resource_id, params, outcome) ==
    LET params1 == filter(params)
        path == <<"/">> \o h.path \o <<"/">> \o Format(resource_id)
        r == RESTResourceHandler_request(h, ts, "PUT", path, params1, outcome)
    IN [requests |-> <<r.req>>,
        result |-> Reraise(r.result,
                           Annotated(r.result.msg, h.name, Format(resource_id)))]

RESTResourceHandler_update(h, ts, resource_id, params, outcome) ==
    RESTResourceHandler_put(h, ts, resource_id, params, outcome)

RESTResourceHandler_delete(h, ts, resource_id, params, outcome) ==
    LET path == <<"/">> \o h.path \o <<"/">> \o Format(resource_id)
        r == RESTResourceHandler_request(h, ts, "DELETE", path, params,
                                         outcome)
    IN [requests |-> <<r.req>>,
        result |-> Reraise(r.result,
                           Annotated(r.result.msg, h.name, Format(resource_id)))]

\* TastyPieResourceHandler.get_by_uri
TastyPieResourceHandler_get_by_uri(h, ts, resource_uri, params, outcome) ==
    LET uri == rstrip(resource_uri)
        segments == split(uri)
        pk == segments[Len(segments)]
    IN RESTResourceHandler_get(h, ts, StrId(pk), params, outcome)

\* Python truth value of the stored schema: None and the empty mapping are
\* false (resource.py:292, "if not self._meta.schema:")
SchemaTruthy(schema) == schema # None /\ Len(schema[1]) > 0

\* TastyPieResourceHandler.schema: the requests issued, the handler after
\* the access and the result
TastyPieResourceHandler_schema(h, ts, outcome) ==
    IF ~SchemaTruthy(h.schema) THEN
        LET r == RESTResourceHandler_request(h, ts, "GET",
                     h.path \o <<"/", "s", "c", "h", "e", "m", "a">>, 0,
                     outcome)
        IN IF r.result.kind = "return"
           THEN [requests |-> <<r.req>>,
                 handler |-> [h EXCEPT !.schema = Some(r.result.value[2])],
                 result |-> Return(r.result.value[2])]
           ELSE [requests |-> <<r.req>>, handler |-> h, result |-> r.result]
    ELSE [requests |-> <<>>, handler |-> h, result |-> Return(h.schema[1])]

\* --------------------------------------------------------------- connection

\* the base URL every modelled connection is constructed with
BaseUrl == <<"h", "t", "t", "p", ":", "/", "/", "h", "/">>

\* names that are attributes of every connection object before any resource
\* is registered: the instance fields and the methods of API / TastyPieAPI
ObjectAttrs ==
    {"_meta", "_resources", "_request", "Meta", "auth", "request",
     "resources", "add_resource"}
    \cup (IF meta.variant = "TastyPieAPI"
          THEN {"find_resources", "_auth_via_basic", "_auth_via_api_key"}
          ELSE {})

\* hasattr(self, name), hs being the registered handlers
hasattr(hs, name) == name \in ObjectAttrs \/ hs[name] # None

\* API.request
API_request(ts, method, path, params, outcome) ==
    RequestHandler_request(ts, 1, method, path, params, outcome)

\* add_resource without the hasattr test of api.py:128: the name is bound and
\* listed whatever it was bound to
API_add_resource_unchecked(res, hs, ts, name, path) ==
    LET path1 == IF path = None \/ Len(path[1]) = 0
                 THEN Chars(name) ELSE lstrip(path[1])
        made == ResourceHandler_init(ts, meta.baseurl, path1, name,
                                     Instance(1))
    IN IF made.result.kind # "return" THEN
           [result |-> made.result, _resources |-> res, handlers |-> hs,
            transports |-> made.transports]
       ELSE
           [result |-> Return(None), _resources |-> Append(res, name),
            handlers |-> [hs EXCEPT ![name] = Some(made.result.value)],
            transports |-> made.transports]

\* API.add_resource(name, path=path) with the connection's resource handler
\* class: the listing, attributes and transports after the call, and its
\* result
API_add_resource(res, hs, ts, name, path) ==
    LET path1 == IF path = None \/ Len(path[1]) = 0
                 THEN Chars(name) ELSE lstrip(path[1])
        made == ResourceHandler_init(ts, meta.baseurl, path1, name,
                                     Instance(1))
    IN IF made.result.kind # "return" THEN
           [result |-> made.result, _resources |-> res, handlers |-> hs,
            transports |-> made.transports]
       ELSE IF hasattr(hs, name) THEN
           [result |-> dRestResourceError("already exist"),
            _resources |-> res, handlers |-> hs,
            transports |-> made.transports]
       ELSE
           [result |-> Return(None), _resources |-> Append(res, name),
            handlers |-> [hs EXCEPT ![name] = Some(made.result.value)],
            transports |-> made.transports]

\* API.auth
API_auth(ts, user, password) ==
    [result |-> Return(None),
     transports |-> [ts EXCEPT ![1] =
                        RequestHandler_set_auth_credentials(@, user, password)]]

TastyPieAPI_auth_via_basic(ts, user, password) == API_auth(ts, user, password)

ApiKeyValue(user, api_key) == <<"ApiKey ", user, ":", api_key>>

TastyPieAPI_auth_via_api_key(ts, user, api_key) ==
    [result |-> Return(None),
     transports |-> [ts EXCEPT ![1] =
                        RequestHandler_add_header(@, "Authorization",
                                                  ApiKeyValue(user, api_key))]]

\* the mechanisms TastyPieAPI.Meta.auth_mechanizms lists
auth_mechanizms == {"api_key", "basic"}

\* TastyPieAPI.auth without the membership test of api.py:225: a mechanism
\* that is not "basic" is taken to be the API key one
TastyPieAPI_auth_any(ts, user, secret) ==
    IF meta.auth_mech = "basic"
    THEN TastyPieAPI_auth_via_basic(ts, user, secret)
    ELSE TastyPieAPI_auth_via_api_key(ts, user, secret)

\* TastyPieAPI.auth
TastyPieAPI_auth(ts, user, secret) ==
    IF meta.auth_mech \in auth_mechanizms THEN
        IF meta.auth_mech = "basic"
        THEN TastyPieAPI_auth_via_basic(ts, user, secret)
        ELSE TastyPieAPI_auth_via_api_key(ts, user, secret)
    ELSE [result |-> dRestAPIError("Unknown TastyPie auth mechanism."),
          transports |-> ts]

\* the loop of find_resources over the keys of the discovery body
RECURSIVE AddEach(_, _, _, _)
AddEach(keys, res, hs, ts) ==
    IF Len(keys) = 0 THEN
        [result |-> Return(None), _resources |-> res, handlers |-> hs,
         transports |-> ts]
    ELSE IF Head(keys) \in ToSet(res) THEN AddEach(Tail(keys), res, hs, ts)
    ELSE LET a == API_add_resource(res, hs, ts, Head(keys), None)
         IN IF a.result.kind # "return" THEN a
            ELSE AddEach(Tail(keys), a._resources, a.handlers, a.transports)

\* TastyPieAPI.find_resources
TastyPieAPI_find_resources(res, hs, ts, outcome) ==
    LET r == API_request(ts, "GET", <<"/">>, 0, outcome)
    IN IF r.result.kind # "return" THEN
           [requests |-> <<r.req>>, result |-> r.result, _resources |-> res,
            handlers |-> hs, transports |-> ts]
       ELSE LET a == AddEach(r.result.value[2], res, hs, ts)
            IN [requests |-> <<r.req>>, result |-> a.result,
                _resources |-> a._resources, handlers |-> a.handlers,
                transports |-> a.transports]

\* -------------------------------------------------------------- the machine

\* the configurations a connection is constructed with.  The base API has
\* no auth mechanism setting (its auth is HTTP Basic) and no auto-discovery.
Metas ==
    {[variant |-> "API", baseurl |-> BaseUrl, auth_mech |-> "basic",
      auto_detect_resources |-> FALSE, filter |-> f] : f \in {"base", "subclass"}}
    \cup [variant : {"TastyPieAPI"}, baseurl : {BaseUrl}, auth_mech : AuthMechs,
          auto_detect_resources : BOOLEAN, filter : {"base", "subclass"}]

NoHandlers == [n \in Names |-> None]

\* before construction, for a connection configured by one of ms
InitWith(ms) ==
    /\ meta \in ms
    /\ pc = "new"
    /\ _resources = <<>>
    /\ handlers = NoHandlers
    /\ transports = <<>>
    /\ lastAuth = None
    /\ call = [op |-> "none"]

Init == InitWith(Metas)

\* API.__init__
API_init ==
    /\ pc = "new"
    /\ meta.variant = "API"
    /\ pc' = "ready"
    /\ _resources' = <<>>
    /\ transports' = <<NewTransport>>
    /\ call' = [op |-> "__init__", requests |-> <<>>, result |-> Return(None)]
    /\ UNCHANGED <<meta, handlers, lastAuth>>

\* TastyPieAPI.__init__: API.__init__, then auto-discovery when configured;
\* an error raised by the discovery leaves no connection object to use
TastyPieAPI_init ==
    /\ pc = "new"
    /\ meta.variant = "TastyPieAPI"
    /\ IF meta.auto_detect_resources
       THEN \E outcome \in Outcomes(Bodies) :
               LET f == TastyPieAPI_find_resources(<<>>, NoHandlers,
                                                   <<NewTransport>>, outcome)
               IN /\ pc' = IF f.result.kind = "return" THEN "ready" ELSE "failed"
                  /\ _resources' = f._resources
                  /\ handlers' = f.handlers
                  /\ transports' = f.transports
                  /\ call' = [op |-> "__init__", requests |-> f.requests,
                              outcome |-> outcome, result |-> f.result]
       ELSE /\ pc' = "ready"
            /\ _resources' = <<>>
            /\ transports' = <<NewTransport>>
            /\ call' = [op |-> "__init__", requests |-> <<>>,
                        result |-> Return(None)]
            /\ UNCHANGED handlers
    /\ UNCHANGED <<meta, lastAuth>>

AddResource ==
    /\ pc = "ready"
    /\ \E name \in Names, path \in PathArgs :
          LET a == API_add_resource(_resources, handlers, transports, name, path)
          IN /\ _resources' = a._resources
             /\ handlers' = a.handlers
             /\ transports' = a.transports
             /\ call' = [op |-> "add_resource", name |-> name, path |-> path,
                         requests |-> <<>>, result |-> a.result]
    /\ UNCHANGED <<meta, pc, lastAuth>>

FindResources ==
    /\ pc = "ready"
    /\ meta.variant = "TastyPieAPI"
    /\ \E outcome \in Outcomes(Bodies) :
          LET f == TastyPieAPI_find_resources(_resources, handlers, transports,
                                              outcome)
          IN /\ _resources' = f._resources
             /\ handlers' = f.handlers
             /\ transports' = f.transports
             /\ call' = [op |-> "find_resources", requests |-> f.requests,
                         outcome |-> outcome, result |-> f.result]
    /\ UNCHANGED <<meta, pc, lastAuth>>

Auth ==
    /\ pc = "ready"
    /\ \E user \in Users, secret \in Secrets :
          LET a == IF meta.variant = "TastyPieAPI"
                   THEN TastyPieAPI_auth(transports, user, secret)
                   ELSE API_auth(transports, user, secret)
          IN /\ transports' = a.transports
             /\ lastAuth' = IF a.result.kind = "return"
                            THEN Some([user |-> user, secret |-> secret])
                            ELSE lastAuth
             /\ call' = [op |-> "auth", user |-> user, secret |-> secret,
                         requests |-> <<>>, result |-> a.result]
    /\ UNCHANGED <<meta, pc, _resources, handlers>>

Request ==
    /\ pc = "ready"
    /\ \E method \in Methods, params \in Params, outcome \in Outcomes(Contents) :
          LET r == API_request(transports, method, <<"/", "x">>, params, outcome)
          IN call' = [op |-> "request", requests |-> <<r.req>>,
                      outcome |-> outcome, result |-> r.result]
    /\ UNCHANGED <<meta, pc, _resources, handlers, transports, lastAuth>>

\* the registered handlers
Registered == {n \in Names : handlers[n] # None}
Handler(n) == handlers[n][1]

VerbCall(op, n, id, params, outcome, r) ==
    /\ call' = [op |-> op, handler |-> n, resource_id |-> id,
                params |-> params, requests |-> r.requests,
                outcome |-> outcome, result |-> r.result]
    /\ UNCHANGED <<meta, pc, _resources, handlers, transports, lastAuth>>

Get ==
    /\ pc = "ready"
    /\ \E n \in Registered, id \in Ids, params \in Params,
          outcome \in Outcomes(Contents) :
          VerbCall("get", n, id, params, outcome,
                   RESTResourceHandler_get(Handler(n), transports, id, params,
                                           outcome))

Post ==
    /\ pc = "ready"
    /\ \E n \in Registered, params \in Params, outcome \in Outcomes(Contents) :
          VerbCall("post", n, NoId, params, outcome,
                   RESTResourceHandler_post(Handler(n), transports, params,
                                            outcome))

Create ==
    /\ pc = "ready"
    /\ \E n \in Registered, params \in Params, outcome \in Outcomes(Contents) :
          VerbCall("create", n, NoId, params, outcome,
                   RESTResourceHandler_create(Handler(n), transports, params,
                                              outcome))

Put ==
    /\ pc = "ready"
    /\ \E n \in Registered, id \in Ids, params \in Params,
          outcome \in Outcomes(Contents) :
          VerbCall("put", n, id, params, outcome,
                   RESTResourceHandler_put(Handler(n), transports, id, params,
                                           outcome))

Update ==
    /\ pc = "ready"
    /\ \E n \in Registered, id \in Ids, params \in Params,
          outcome \in Outcomes(Contents) :
          VerbCall("update", n, id, params, outcome,
                   RESTResourceHandler_update(Handler(n), transports, id,
                                              params, outcome))

Delete ==
    /\ pc = "ready"
    /\ \E n \in Registered, id \in Ids, params \in Params,
          outcome \in Outcomes(Contents) :
          VerbCall("delete", n, id, params, outcome,
                   RESTResourceHandler_delete(Handler(n), transports, id,
                                              params, outcome))

\* a resource URI whose trailing segment is the id
ResourceUri(n, id, slashes) ==
    <<"/", "a", "p", "i", "/">> \o Chars(n) \o <<"/">> \o IntStr(id)
    \o [i \in 1..slashes |-> "/"]

\* get_by_uri on the URI of an integer id; the call records what get(id,
\* params) does on the same handler and server answer
GetByUri ==
    /\ pc = "ready"
    /\ meta.variant = "TastyPieAPI"
    /\ \E n \in Registered, id \in IntIds, slashes \in 0..MaxSlashes,
          params \in Params, outcome \in Outcomes(Contents) :
          LET r == TastyPieResourceHandler_get_by_uri(
                       Handler(n), transports, ResourceUri(n, id, slashes),
                       params, outcome)
              g == RESTResourceHandler_get(Handler(n), transports, IntId(id),
                                           params, outcome)
          IN call' = [op |-> "get_by_uri", handler |-> n,
                      resource_id |-> IntId(id), slashes |-> slashes,
                      params |-> params, requests |-> r.requests,
                      outcome |-> outcome, result |-> r.result, get |-> g]
    /\ UNCHANGED <<meta, pc, _resources, handlers, transports, lastAuth>>

Schema ==
    /\ pc = "ready"
    /\ meta.variant = "TastyPieAPI"
    /\ \E n \in Registered, outcome \in Outcomes(Contents) :
          LET s == TastyPieResourceHandler_schema(Handler(n), transports,
                                                  outcome)
          IN /\ handlers' = [handlers EXCEPT ![n] = Some(s.handler)]
             /\ call' = [op |-> "schema", handler |-> n,
                         stored |-> Handler(n).schema,
                         requests |-> s.requests, outcome |-> outcome,
                         result |-> s.result]
    /\ UNCHANGED <<meta, pc, _resources, transports, lastAuth>>

\* construction and registration, for every configuration whose filter hook
\* is the base one (registration never applies the hook)
InitRegister == InitWith({m \in Metas : m.filter = "base"})
NextRegister ==
    \/ API_init
    \/ TastyPieAPI_init
    \/ AddResource
    \/ FindResources
SpecRegister == InitRegister /\ [][NextRegister]_vars

\* the verb methods of registered resources, for both variants and both
\* filter hooks (the verbs read neither the auth mechanism nor the
\* auto-discovery setting; the specialized connection discovers)
InitVerbs ==
    InitWith({m \in Metas :
                 m.variant = "TastyPieAPI" =>
                     (m.auth_mech = "api_key" /\ m.auto_detect_resources)})
NextVerbs ==
    \/ API_init
    \/ TastyPieAPI_init
    \/ AddResource
    \/ Get
    \/ Post
    \/ Create
    \/ Put
    \/ Update
    \/ Delete
    \/ GetByUri
SpecVerbs == InitVerbs /\ [][NextVerbs]_vars

\* schema access on the resources of a specialized connection
InitSchema == InitWith({m \in Metas : m.variant = "TastyPieAPI"
                                       /\ m.auth_mech = "api_key"
                                       /\ m.filter = "base"})
NextSchema ==
    \/ TastyPieAPI_init
    \/ AddResource
    \/ Schema
SpecSchema == InitSchema /\ [][NextSchema]_vars

\* authentication interleaved with registration and requests, for every
\* variant and auth mechanism (the specialized connection discovers at
\* construction; no operation here applies the filter hook's override)
InitAuth ==
    InitWith({m \in Metas :
                 (m.filter = "base") /\
                 (m.variant = "TastyPieAPI" => m.auto_detect_resources)})
NextAuth ==
    \/ API_init
    \/ TastyPieAPI_init
    \/ AddResource
    \/ FindResources
    \/ Auth
    \/ Request
    \/ Get
    \/ Post
    \/ Put
    \/ Delete
SpecAuth == InitAuth /\ [][NextAuth]_vars

\* every operation on one connection, in any order; the specifications
\* above are its restrictions to the operations each group of properties
\* is about
Next ==
    \/ API_init
    \/ TastyPieAPI_init
    \/ AddResource
    \/ FindResources
    \/ Auth
    \/ Request
    \/ Get
    \/ Post
    \/ Create
    \/ Put
    \/ Update
    \/ Delete
    \/ GetByUri
    \/ Schema
Spec == Init /\ [][Next]_vars

\* ------------------------------------------------------------------ claims

Verbs == {"get", "post", "create", "put", "update", "delete"}
IsPrefix(s, t) == Len(s) <= Len(t) /\ SubSeq(t, 1, Len(s)) = s

\* C1: an add_resource call whose name is already an attribute of the
\* connection (a registered resource or any other attribute) fails with a
\* resource error and leaves the listing and the attributes as they were.
C1_CollisionFailsUnchanged ==
    [][(call'.op = "add_resource" /\ hasattr(handlers, call'.name)) =>
          /\ call'.result.kind = "dRestResourceError"
          /\ _resources' = _resources
          /\ handlers' = handlers]_vars

\* a registered name is registered again, with the default path, and fails
C1_Witness ==
    /\ call.op = "add_resource"
    /\ call.path = None
    /\ call.name \in ToSet(_resources)
    /\ call.result.kind = "dRestResourceError"

\* C2: once a schema access of a handler has fetched and stored a body, no
\* later access of that handler issues a request, whatever the stored body.
C2_SchemaFetchedOnce ==
    (call.op = "schema" /\ call.stored # None) => call.requests = <<>>

\* C3: after the discovery of the construction was answered, the listing
\* holds exactly the keys of the discovery body, whatever the keys.
C3_DiscoveryRegistersExactlyKeys ==
    (/\ meta.variant = "TastyPieAPI"
     /\ meta.auto_detect_resources
     /\ call.op = "__init__"
     /\ Is2xx(call.outcome.status))
    => ToSet(_resources) = ToSet(call.outcome.content)

\* C4: get_by_uri on the URI of an id issues the request get(id) issues and
\* ends as get(id) ends, for every id.
C4_GetByUriIsGet ==
    call.op = "get_by_uri" =>
        /\ call.requests = call.get.requests
        /\ call.result = call.get.result

\* C5: a verb call whose request the transport fails raises a request error
\* with the transport's response and content and the transport's message
\* annotated with the resource name and, for the verbs taking one, the id.
C5_VerbErrorReraised ==
    (call.op \in Verbs /\ ~Is2xx(call.outcome.status)) =>
        /\ call.result.kind = "dRestRequestError"
        /\ call.result.response = [status |-> call.outcome.status]
        /\ call.result.content = call.outcome.content
        /\ call.result.msg =
              IF call.op \in {"post", "create"}
              THEN <<"Received HTTP Code ", call.outcome.status,
                     " (resource: ", call.handler, ")">>
              ELSE <<"Received HTTP Code ", call.outcome.status,
                     " (resource: ", call.handler, ", id: ",
                     Format(call.resource_id), ")">>

\* a get of one record fails
C5_Witness ==
    /\ call.op = "get"
    /\ call.resource_id = IntId(MaxId)
    /\ call.result.kind = "dRestRequestError"

\* C6: a verb call issues exactly one request, failed or not, and returns
\* the transport's (response, content) pair when the request succeeds.
C6_OneRequestPairReturned ==
    call.op \in Verbs =>
        /\ Len(call.requests) = 1
        /\ Is2xx(call.outcome.status) =>
              call.result = Return(<<[status |-> call.outcome.status],
                                     call.outcome.content>>)

\* a put fails, after one request
C6_Witness ==
    /\ call.op = "put"
    /\ call.result.kind = "dRestRequestError"
    /\ Len(call.requests) = 1

\* C7: auth on the specialized connection sets the Authorization header to
\* 'ApiKey <user>:<secret>' and no credentials under "api_key", stores the
\* credentials and no header under "basic", and under any other mechanism
\* fails with an API error and changes neither.
C7_AuthDispatch ==
    [][(call'.op = "auth" /\ meta.variant = "TastyPieAPI") =>
          CASE meta.auth_mech = "api_key" ->
                 /\ call'.result.kind = "return"
                 /\ DOMAIN transports'[1].headers = {"Authorization"}
                 /\ transports'[1].headers["Authorization"] =
                       <<"ApiKey ", call'.user, ":", call'.secret>>
                 /\ transports'[1].creds = None
            [] meta.auth_mech = "basic" ->
                 /\ call'.result.kind = "return"
                 /\ transports'[1].creds = Some(<<call'.user, call'.secret>>)
                 /\ DOMAIN transports'[1].headers = {}
            [] OTHER ->
                 /\ call'.result.kind = "dRestAPIError"
                 /\ transports' = transports]_vars

\* auth fails under a mechanism outside the fixed set
C7_Witness ==
    /\ call.op = "auth"
    /\ meta.variant = "TastyPieAPI"
    /\ meta.auth_mech = "digest"
    /\ call.result.kind = "dRestAPIError"

\* C8: the params a verb hands to the transport are the caller's params with
\* the filter hook applied exactly once.
C8_FilterAppliedOnce ==
    call.op \in Verbs => call.requests[1].params = filter(call.params)

\* the listing has no duplicate and every listed name is bound to a handler
\* of that name
C9_ListingWellFormed ==
    /\ Distinct(_resources)
    /\ \A i \in 1..Len(_resources) :
          /\ handlers[_resources[i]] # None
          /\ Handler(_resources[i]).name = _resources[i]

\* C9: over add_resource and find_resources calls the listing stays well
\* formed and grows only at its end, and a call that fails adds nothing.
C9_RegistrationInvariant ==
    [][/\ C9_ListingWellFormed'
       /\ IsPrefix(_resources, _resources')
       /\ (call'.op \in {"add_resource", "find_resources"}
           /\ call'.result.kind # "return") => _resources' = _resources]_vars

\* what the most recent successful auth call makes a request carry
AuthHeaders ==
    IF lastAuth # None /\ meta.variant = "TastyPieAPI"
                       /\ meta.auth_mech = "api_key"
    THEN [k \in {"Authorization"} |->
             <<"ApiKey ", lastAuth[1].user, ":", lastAuth[1].secret>>]
    ELSE <<>>
AuthCreds ==
    IF lastAuth # None /\ (meta.variant = "API" \/ meta.auth_mech = "basic")
    THEN Some(<<lastAuth[1].user, lastAuth[1].secret>>)
    ELSE None

\* C10: every resource uses the connection's transport, and every request,
\* of the connection or of a resource, carries what the most recent auth
\* call set, and nothing before the first one (the discovery of the
\* construction included).
C10_RequestsCarryLastAuth ==
    /\ \A n \in Registered : Handler(n)._request = 1
    /\ call.op # "none" =>
          \A i \in 1..Len(call.requests) :
              /\ call.requests[i].transport = 1
              /\ call.requests[i].headers = AuthHeaders
              /\ call.requests[i].creds = AuthCreds

\* a resource's get follows an auth call and carries what it set
C10_Witness ==
    /\ call.op = "get"
    /\ lastAuth # None
    /\ call.requests[1].creds # None \/ DOMAIN call.requests[1].headers # {}

====
